---- MODULE Spec2Model ----
(***************************************************************************)
(* The semantic task store of ReceiptPrinterAgent: TaskDatabase            *)
(* (src/src/database/task_db.py), the agent's ingestion loop               *)
(* (src/agent.py, main) and the database setup script                      *)
(* (src/setup_database.py).                                                *)
(*                                                                         *)
(* Numbers.  Embedding components are integers; the values the provider    *)
(* returns (Python floats) are all integers, the values the storage        *)
(* engine keeps (vector32, single precision) are the even integers.        *)
(* Cosine distances are in hundredths (10 is the distance 0.1).            *)
(* Timestamps are readings of a global clock.                              *)
(***************************************************************************)
EXTENDS Integers, Sequences, FiniteSets, TLC

\* ---------------------------------------------------------------- bounds
NumProcs == 2       \* processes (runs of agent.py / setup_database.py) alive at once
MaxBatch == 2       \* tasks in one extraction result
MaxClock == 1       \* readings of datetime.now() after the first
MaxRuns == 2        \* program runs started in one behaviour
MaxComponent == 20  \* largest magnitude of an embedding component
MaxCalls == 4       \* calls the clients of TaskDatabase make in one behaviour

Procs == 1..NumProcs

\* ------------------------------------------------------- Python / SQL values
None == "None"          \* Python None / SQL NULL in a text column
NoVector == <<>>        \* Python None / SQL NULL in the embedding column
NoDistance == -1        \* TaskRecord.similarity_distance = None

\* ------------------------------------------------------- program constants
DuplicateThreshold == 10    \* 0.1 in agent.py, main
DefaultLimit == 5           \* find_similar_tasks(query, limit=5)
TestLimit == 1              \* find_similar_tasks("database test", limit=1)
embedding_dimensions == 4   \* self.embedding_dimensions (1536), F32_BLOB(1536)

\* ------------------------------------------------------- Embedding Provider
\* OpenAI text-embedding-3-small, as a fixed table from text to vector.
EmbeddingTable ==
    [text \in { "Submit quarterly report",
                "File quarterly report",
                "Database Test Task Context: Database setup test",
                "database test",
                " ",
                "Submit quarterly report Context: Database setup test",
                "  Context: Database setup test" } |->
        CASE text = "Submit quarterly report" -> <<19, 7, 6, 3>>
          [] text = "File quarterly report" -> <<20, 1, 0, 0>>
          [] text = "Database Test Task Context: Database setup test" -> <<17, 8, 9, 4>>
          [] text = "database test" -> <<16, 13, 1, 0>>
          [] text = " " -> <<10, 10, 10, 10>>
          [] text = "Submit quarterly report Context: Database setup test" -> <<18, 7, 7, 2>>
          [] text = "  Context: Database setup test" -> <<0, 17, 12, 1>>]

\* response.data[0].embedding of a successful call
generate_embedding(text) == EmbeddingTable[text]

\* ------------------------------------------------------------ vector codec
\* "[" + ",".join(map(str, embedding)) + "]": the components as decimal text
EmbeddingStr(embedding) == [j \in 1..Len(embedding) |-> ToString(embedding[j])]

\* the number a decimal text denotes
ParseNumber(s) == CHOOSE n \in (0 - MaxComponent)..MaxComponent : ToString(n) = s

\* conversion of a number to single precision: the next even integer below
F32(x) == 2 * (x \div 2)

\* vector32(?): parse the text and keep each component in single precision
vector32(str) == [j \in 1..Len(str) |-> F32(ParseNumber(str[j]))]

RECURSIVE Dot(_, _)
Dot(a, b) == IF a = <<>> THEN 0 ELSE Head(a) * Head(b) + Dot(Tail(a), Tail(b))

ISqrt(n) == CHOOSE r \in 0..n : r * r <= n /\ n < (r + 1) * (r + 1)

\* vector_distance_cos(a, b) = 1 - a.b / (|a| |b|), in hundredths
vector_distance_cos(a, b) ==
    100 - ((100 * Dot(a, b)) \div (ISqrt(Dot(a, a)) * ISqrt(Dot(b, b))))

\* ------------------------------------------------------------------ state
VARIABLES
    tableExists,      \* the tasks table and tasks_embedding_idx exist in the database
    tasks,            \* committed rows of the tasks table, in rowid order
    autoinc,          \* sqlite_sequence entry of tasks: the largest rowid ever committed
    txn,              \* per connection: rows inserted and not yet committed
    clock,            \* the reading datetime.now() returns
    runs,             \* program runs started so far
    pc,               \* per process: position in the program it runs
    prog,             \* per process: "agent" (agent.py) or "test" (setup_database.py, test_database)
    conn,             \* per process: state of TaskDatabase.conn
    result,           \* agent.py main: result.tasks
    idx,              \* agent.py main: i of the for loop
    new_tasks,        \* agent.py main
    duplicate_tasks,  \* agent.py main
    similar_tasks,    \* the list find_similar_tasks last returned
    embedding,        \* add_task: the embedding of the call in progress
    task_record,      \* the TaskRecord add_task last returned (a list of at most one)
    stdout,           \* what the process has printed
    calls,            \* client of TaskDatabase: calls made so far
    call,             \* clients of TaskDatabase: the last call, its client and arguments
    raised,           \* clients of TaskDatabase: the exception the last call raised, or None
    recent_tasks,     \* clients of TaskDatabase: the list get_recent_tasks last returned
    embedding_text    \* clients of TaskDatabase: the text last sent to the Embedding Provider

dbvars == <<tableExists, tasks, autoinc>>
agentvars == <<result, idx, new_tasks, duplicate_tasks>>
apivars == <<calls, call, raised, recent_tasks, embedding_text>>
vars == <<tableExists, tasks, autoinc, txn, clock, runs, pc, prog, conn, result, idx,
          new_tasks, duplicate_tasks, similar_tasks, embedding, task_record, stdout,
          calls, call, raised, recent_tasks, embedding_text>>

\* ------------------------------------------------------------- Task Producer
Task(name, priority) == [name |-> name, priority |-> priority, due_date |-> "2025-01-31"]

\* the tasks the extraction agent can return; Task.priority is any int
ExtractedTasks ==
    { Task("Submit quarterly report", 1),
      Task("File quarterly report", 4) }

\* result.tasks of extract_email_tasks
Batches == UNION { [1..n -> ExtractedTasks] : n \in 0..MaxBatch }

\* class SampleTask of test_database
SampleTask == [name |-> "Database Test Task", priority |-> 2, due_date |-> "now"]

\* ---------------------------------------------------------------- records
\* a row of the tasks table
Row(id, task, created_at, email_context, vec) ==
    [id |-> id, name |-> task.name, priority |-> task.priority, due_date |-> task.due_date,
     created_at |-> created_at, email_context |-> email_context, embedding |-> vec]

\* dataclass TaskRecord
TaskRecord(id, name, priority, due_date, created_at, vec, email_context, similarity_distance) ==
    [id |-> id, name |-> name, priority |-> priority, due_date |-> due_date,
     created_at |-> created_at, embedding |-> vec, email_context |-> email_context,
     similarity_distance |-> similarity_distance]

\* ------------------------------------------------------------ TaskDatabase
\* a text that leaves the context out
EmbeddingText_NameOnly(name, email_context) == name

\* add_task: the text that is embedded
EmbeddingText(name, email_context) ==
    IF email_context # None /\ email_context # ""
    THEN name \o " Context: " \o email_context
    ELSE name

\* what a statement executed on p's connection reads: committed rows and its own
View(p) == tasks \o txn[p]

\* a rowid that repeats the largest one
NextRowid_Stale == autoinc

\* a rowid that falls back to the one below the largest once two were given
NextRowid_Reuses == IF autoinc > 1 THEN autoinc - 1 ELSE autoinc + 1

\* rowid AUTOINCREMENT gives the next inserted row
NextRowid == autoinc + 1

\* an index that takes up a row only after the insert has returned
Indexed_Lagging(rows) ==
    SelectSeq(SubSeq(rows, 1, Len(rows) - 1), LAMBDA r : r.embedding # NoVector)

\* the rows tasks_embedding_idx holds
Indexed(rows) == SelectSeq(rows, LAMBDA r : r.embedding # NoVector)

\* vector_top_k(..., m) under ORDER BY distance ASC: the m nearest of the
\* positions S, nearest first; SQL leaves the order of equal distances open
RECURSIVE TopK(_, _, _)
TopK(dist, S, m) ==
    IF m <= 0 \/ S = {}
    THEN { <<>> }
    ELSE LET nearest == { j \in S : \A i \in S : dist[j] <= dist[i] }
         IN  UNION { { <<j>> \o t : t \in TopK(dist, S \ {j}, m - 1) } : j \in nearest }

\* the SELECT without its ORDER BY: the nearest rows in the order of the table
find_similar_rows_Unordered(rows, qvec, limit) ==
    LET ix == Indexed(rows)
        dist == [j \in 1..Len(ix) |-> vector_distance_cos(ix[j].embedding, qvec)]
    IN  { SortSeq(s, LAMBDA a, b : a < b) : s \in TopK(dist, 1..Len(ix), limit) }

\* the SELECT with ORDER BY distance DESC: the rows farthest first
find_similar_rows_Farthest(rows, qvec, limit) ==
    LET ix == Indexed(rows)
        dist == [j \in 1..Len(ix) |-> 0 - vector_distance_cos(ix[j].embedding, qvec)]
    IN  TopK(dist, 1..Len(ix), limit)

\* the SELECT of find_similar_tasks: the orders in which the rows can come
\* back, as sequences of positions in Indexed(rows)
find_similar_rows(rows, qvec, limit) ==
    LET ix == Indexed(rows)
        dist == [j \in 1..Len(ix) |-> vector_distance_cos(ix[j].embedding, qvec)]
    IN  TopK(dist, 1..Len(ix), limit)

\* a list whose records are built without the distance column
SimilarRecords_NoDistance(rows, qvec, s) ==
    LET ix == Indexed(rows)
    IN  [a \in 1..Len(s) |->
            TaskRecord(ix[s[a]].id, ix[s[a]].name, ix[s[a]].priority, ix[s[a]].due_date,
                       ix[s[a]].created_at, NoVector, ix[s[a]].email_context, NoDistance)]

\* the TaskRecord list find_similar_tasks builds from the fetched rows
SimilarRecords(rows, qvec, s) ==
    LET ix == Indexed(rows)
    IN  [a \in 1..Len(s) |->
            TaskRecord(ix[s[a]].id, ix[s[a]].name, ix[s[a]].priority, ix[s[a]].due_date,
                       ix[s[a]].created_at, NoVector, ix[s[a]].email_context,
                       vector_distance_cos(ix[s[a]].embedding, qvec))]

\* every list find_similar_tasks can return for an embedded query
QueryNearest(rows, embedded, limit) ==
    LET qvec == vector32(EmbeddingStr(embedded))
    IN  { SimilarRecords(rows, qvec, s) : s \in find_similar_rows(rows, qvec, limit) }

\* ------------------------------------------------------------ agent.py main
\* the duplicate test asking for more than one similar record
IsDuplicate_NeedsTwo(similar) ==
    /\ similar # <<>>
    /\ Len(similar) > 1
    /\ similar[1].similarity_distance < DuplicateThreshold

\* the duplicate test with the threshold itself counted as a duplicate
IsDuplicate_Inclusive(similar) ==
    /\ similar # <<>>
    /\ Len(similar) > 0
    /\ similar[1].similarity_distance <= DuplicateThreshold

\* the duplicate test of the ingestion loop
IsDuplicate(similar) ==
    /\ similar # <<>>
    /\ Len(similar) > 0
    /\ similar[1].similarity_distance < DuplicateThreshold

\* the summary printed after the loop
SummaryLines(nt, dt) ==
    (IF nt # <<>> THEN << <<"saved", Len(nt)>> >> ELSE <<>>)
        \o (IF dt # <<>> THEN << <<"duplicates", Len(dt)>> >> ELSE <<>>)

\* the arguments of the add_task / find_similar_tasks call p is making
AddTaskArg(p) == IF prog[p] = "agent" THEN result[p][idx[p]] ELSE SampleTask
ContextArg(p) == IF prog[p] = "agent" THEN None ELSE "Database setup test"
QueryArg(p) == IF prog[p] = "agent" THEN result[p][idx[p]].name ELSE "database test"
LimitArg(p) == IF prog[p] = "agent" THEN DefaultLimit ELSE TestLimit

\* ------------------------------------------------------------------- Init
\* a call of client p with its arguments; None for the arguments the
\* method does not have
Call(p, op, task, email_context, query, limit) ==
    [client |-> p, op |-> op, task |-> task, email_context |-> email_context,
     query |-> query, limit |-> limit]

\* no call made yet
NoCall == Call(0, "none", None, None, None, None)

NoRun(v) == [p \in Procs |-> v]

Init ==
    /\ tableExists \in BOOLEAN
    /\ tasks = <<>>
    /\ autoinc = 0
    /\ txn = NoRun(<<>>)
    /\ clock = 0
    /\ runs = 0
    /\ pc = NoRun("idle")
    /\ prog = NoRun("none")
    /\ conn = NoRun("none")
    /\ result = NoRun(<<>>)
    /\ idx = NoRun(0)
    /\ new_tasks = NoRun(<<>>)
    /\ duplicate_tasks = NoRun(<<>>)
    /\ similar_tasks = NoRun(<<>>)
    /\ embedding = NoRun(NoVector)
    /\ task_record = NoRun(<<>>)
    /\ stdout = NoRun(<<>>)
    /\ calls = 0
    /\ call = NoCall
    /\ raised = None
    /\ recent_tasks = <<>>
    /\ embedding_text = None

\* --------------------------------------------------------------- exceptions
\* an exception that no handler catches: the program ends where it is raised
Raise_Exits(p, e) ==
    /\ stdout' = [stdout EXCEPT ![p] = Append(@, <<"error", e>>)]
    /\ pc' = [pc EXCEPT ![p] = "exit"]

\* An exception leaves the call.  agent.py main catches it, prints it and goes
\* on to db.close(); test_database catches it, prints it and returns False,
\* which leaves the connection to the end of the process.
Raise(p, e) ==
    /\ stdout' = [stdout EXCEPT ![p] = Append(@, <<"error", e>>)]
    /\ pc' = [pc EXCEPT ![p] = IF prog[p] = "agent" THEN "close" ELSE "exit"]

\* agent.py main: the candidate at idx is settled with the lists nt and dt;
\* the loop goes to the next candidate or ends and prints the summary
NextCandidate(p, nt, dt) ==
    /\ new_tasks' = [new_tasks EXCEPT ![p] = nt]
    /\ duplicate_tasks' = [duplicate_tasks EXCEPT ![p] = dt]
    /\ IF idx[p] < Len(result[p])
       THEN /\ idx' = [idx EXCEPT ![p] = @ + 1]
            /\ stdout' = [stdout EXCEPT ![p] = Append(@, <<"task", idx[p] + 1>>)]
            /\ pc' = [pc EXCEPT ![p] = "find"]
       ELSE /\ idx' = idx
            /\ stdout' = [stdout EXCEPT ![p] = @ \o SummaryLines(nt, dt)]
            /\ pc' = [pc EXCEPT ![p] = "close"]

\* the duplicate branch without its continue: the candidate is put on the
\* duplicate list and falls through to add_task
CheckDuplicate_NoContinue(p, sim) ==
    IF IsDuplicate(sim)
    THEN /\ duplicate_tasks' = [duplicate_tasks EXCEPT ![p] = Append(@, result[p][idx[p]])]
         /\ pc' = [pc EXCEPT ![p] = "add"]
         /\ UNCHANGED <<new_tasks, idx, stdout>>
    ELSE /\ pc' = [pc EXCEPT ![p] = "add"]
         /\ UNCHANGED <<new_tasks, duplicate_tasks, idx, stdout>>

\* the duplicate branch that continues without recording the candidate
CheckDuplicate_Drops(p, sim) ==
    IF IsDuplicate(sim)
    THEN NextCandidate(p, new_tasks[p], duplicate_tasks[p])
    ELSE /\ pc' = [pc EXCEPT ![p] = "add"]
         /\ UNCHANGED <<new_tasks, duplicate_tasks, idx, stdout>>

\* the duplicate branch putting the candidate at the front of the list
CheckDuplicate_Prepends(p, sim) ==
    IF IsDuplicate(sim)
    THEN NextCandidate(p, new_tasks[p], <<result[p][idx[p]]>> \o duplicate_tasks[p])
    ELSE /\ pc' = [pc EXCEPT ![p] = "add"]
         /\ UNCHANGED <<new_tasks, duplicate_tasks, idx, stdout>>

\* agent.py main: the check for duplicates on the list find_similar_tasks
\* returned: a duplicate is put on duplicate_tasks and the loop continues,
\* anything else goes on to add_task
CheckDuplicate(p, sim) ==
    IF IsDuplicate(sim)
    THEN NextCandidate(p, new_tasks[p], Append(duplicate_tasks[p], result[p][idx[p]]))
    ELSE /\ pc' = [pc EXCEPT ![p] = "add"]
         /\ UNCHANGED <<new_tasks, duplicate_tasks, idx, stdout>>

\* ------------------------------------------------------------------ actions
\* a program is started as the process of the lowest free number
CanStart(p) ==
    /\ pc[p] = "idle"
    /\ runs < MaxRuns
    /\ \A q \in Procs : q < p => pc[q] # "idle"

\* datetime.now(): a reading not before the last one
Now == clock..MaxClock

\* setup_database.py, create_database_tables: optionally drop the table and
\* the index, then create both if they do not exist, and commit
create_database_tables(p) ==
    /\ CanStart(p)
    /\ \A q \in Procs : txn[q] = <<>>
    /\ \E recreate \in BOOLEAN :
          IF tableExists /\ recreate
          THEN tasks' = <<>> /\ autoinc' = 0
          ELSE UNCHANGED <<tasks, autoinc>>
    /\ tableExists' = TRUE
    /\ runs' = runs + 1
    /\ UNCHANGED <<txn, clock, pc, prog, conn, agentvars, similar_tasks,
                   embedding, task_record, stdout>>
    /\ UNCHANGED apivars

\* agent.py main up to the try block: db = TaskDatabase()
AgentStart(p) ==
    /\ CanStart(p)
    /\ runs' = runs + 1
    /\ prog' = [prog EXCEPT ![p] = "agent"]
    /\ conn' = [conn EXCEPT ![p] = "open"]
    /\ pc' = [pc EXCEPT ![p] = "extract"]
    /\ UNCHANGED <<dbvars, txn, clock, agentvars, similar_tasks, embedding,
                   task_record, stdout>>
    /\ UNCHANGED apivars

\* setup_database.py, test_database up to add_task: db = TaskDatabase()
TestStart(p) ==
    /\ CanStart(p)
    /\ runs' = runs + 1
    /\ prog' = [prog EXCEPT ![p] = "test"]
    /\ conn' = [conn EXCEPT ![p] = "open"]
    /\ pc' = [pc EXCEPT ![p] = "add"]
    /\ UNCHANGED <<dbvars, txn, clock, agentvars, similar_tasks, embedding,
                   task_record, stdout>>
    /\ UNCHANGED apivars

\* agent.py main: result = await extract_email_tasks(...), and the branch on it
ExtractEmailTasks(p) ==
    /\ pc[p] = "extract"
    /\ \/ \E r \in Batches :
            /\ result' = [result EXCEPT ![p] = r]
            /\ IF r # <<>>
               THEN /\ idx' = [idx EXCEPT ![p] = 1]
                    /\ stdout' = [stdout EXCEPT ![p] = @ \o << <<"found", Len(r)>>, <<"task", 1>> >>]
                    /\ pc' = [pc EXCEPT ![p] = "find"]
               ELSE /\ idx' = idx
                    /\ stdout' = [stdout EXCEPT ![p] = Append(@, <<"found", 0>>)]
                    /\ pc' = [pc EXCEPT ![p] = "close"]
       \/ /\ \E e \in {"AuthorizationError", "Exception"} : Raise(p, e)
          /\ UNCHANGED <<result, idx>>
    /\ UNCHANGED <<dbvars, txn, clock, runs, prog, conn, new_tasks, duplicate_tasks,
                   similar_tasks, embedding, task_record>>
    /\ UNCHANGED apivars

\* TaskDatabase.find_similar_tasks, and what its caller does with the list:
\* agent.py main tests for a duplicate, test_database prints and closes
find_similar_tasks(p) ==
    /\ pc[p] = "find"
    /\ \/ /\ \E e \in {"ProviderError"} \cup (IF tableExists THEN {} ELSE {"OperationalError"}) :
                Raise(p, e)
          /\ UNCHANGED <<similar_tasks, new_tasks, duplicate_tasks, idx>>
       \/ /\ tableExists
          /\ \E sim \in QueryNearest(View(p), generate_embedding(QueryArg(p)), LimitArg(p)) :
                /\ similar_tasks' = [similar_tasks EXCEPT ![p] = sim]
                /\ IF prog[p] = "agent"
                   THEN CheckDuplicate(p, sim)
                   ELSE /\ pc' = [pc EXCEPT ![p] = "close"]
                        /\ stdout' = [stdout EXCEPT ![p] =
                                         IF sim # <<>> THEN Append(@, <<"similar", Len(sim)>>) ELSE @]
                        /\ UNCHANGED <<new_tasks, duplicate_tasks, idx>>
    /\ UNCHANGED <<dbvars, txn, clock, runs, prog, conn, result, embedding, task_record>>
    /\ UNCHANGED apivars

\* an insert in two writes: the row goes into the table at once without its
\* due date, which the commit is to bring
add_task_execute_TwoWrites(p) ==
    /\ pc[p] = "add"
    /\ tableExists
    /\ \A q \in Procs : txn[q] = <<>>
    /\ \E now \in Now :
          LET task == AddTaskArg(p)
              e == generate_embedding(EmbeddingText(task.name, ContextArg(p)))
              row == Row(NextRowid, task, now, ContextArg(p), vector32(EmbeddingStr(e)))
          IN  /\ embedding' = [embedding EXCEPT ![p] = e]
              /\ txn' = [txn EXCEPT ![p] = <<row>>]
              /\ tasks' = Append(tasks, [row EXCEPT !.due_date = None])
              /\ clock' = now
    /\ pc' = [pc EXCEPT ![p] = "commit"]
    /\ UNCHANGED <<tableExists, autoinc, stdout, runs, prog, conn, agentvars,
                   similar_tasks, task_record>>
    /\ UNCHANGED apivars

\* TaskDatabase.add_task up to cursor.execute: embed the text, INSERT the row.
\* The INSERT needs the table and the write lock; the row stays in p's
\* transaction until the commit.
add_task_execute(p) ==
    /\ pc[p] = "add"
    /\ \/ /\ tableExists
          /\ \A q \in Procs : txn[q] = <<>>
          /\ \E now \in Now :
                LET task == AddTaskArg(p)
                    e == generate_embedding(EmbeddingText(task.name, ContextArg(p)))
                IN  /\ embedding' = [embedding EXCEPT ![p] = e]
                    /\ txn' = [txn EXCEPT ![p] =
                                 << Row(NextRowid, task, now, ContextArg(p),
                                        vector32(EmbeddingStr(e))) >>]
                    /\ clock' = now
          /\ pc' = [pc EXCEPT ![p] = "commit"]
          /\ UNCHANGED stdout
       \/ /\ \E e \in {"ProviderError", "OperationalError"} : Raise(p, e)
          /\ UNCHANGED <<embedding, txn, clock>>
    /\ UNCHANGED <<dbvars, runs, prog, conn, agentvars, similar_tasks, task_record>>
    /\ UNCHANGED apivars

\* an add_task whose failed commit is swallowed: the caller goes on as if
\* the record had been stored
add_task_commit_Optimistic(p) ==
    /\ pc[p] = "commit"
    /\ prog[p] = "agent"
    /\ NextCandidate(p, Append(new_tasks[p], result[p][idx[p]]), duplicate_tasks[p])
    /\ UNCHANGED <<dbvars, txn, clock, task_record>>
    /\ UNCHANGED <<runs, prog, conn, result, similar_tasks, embedding>>
    /\ UNCHANGED apivars

\* TaskDatabase.add_task from task_id = cursor.lastrowid: commit, build the
\* returned TaskRecord; then agent.py main appends to new_tasks and
\* test_database prints the id
add_task_commit(p) ==
    /\ pc[p] = "commit"
    /\ \/ /\ \E now \in Now :
                LET row == txn[p][1]
                    task == AddTaskArg(p)
                IN  /\ tasks' = tasks \o txn[p]
                    /\ autoinc' = row.id
                    /\ task_record' = [task_record EXCEPT ![p] =
                           << TaskRecord(row.id, task.name, task.priority, task.due_date,
                                         now, embedding[p], ContextArg(p), NoDistance) >>]
                    /\ clock' = now
          /\ txn' = [txn EXCEPT ![p] = <<>>]
          /\ IF prog[p] = "agent"
             THEN NextCandidate(p, Append(new_tasks[p], result[p][idx[p]]), duplicate_tasks[p])
             ELSE /\ pc' = [pc EXCEPT ![p] = "find"]
                  /\ stdout' = [stdout EXCEPT ![p] = Append(@, <<"created", txn[p][1].id>>)]
                  /\ UNCHANGED <<new_tasks, duplicate_tasks, idx>>
       \/ /\ Raise(p, "OperationalError")
          /\ UNCHANGED <<tasks, autoinc, task_record, txn, clock, new_tasks, duplicate_tasks, idx>>
    /\ UNCHANGED <<tableExists, runs, prog, conn, result, similar_tasks, embedding>>
    /\ UNCHANGED apivars

\* the program returns and the process ends: its variables are gone, and a
\* transaction its connection had not committed is rolled back
EndOfProcess(p) ==
    /\ pc' = [pc EXCEPT ![p] = "idle"]
    /\ prog' = [prog EXCEPT ![p] = "none"]
    /\ txn' = [txn EXCEPT ![p] = <<>>]
    /\ result' = [result EXCEPT ![p] = <<>>]
    /\ idx' = [idx EXCEPT ![p] = 0]
    /\ new_tasks' = [new_tasks EXCEPT ![p] = <<>>]
    /\ duplicate_tasks' = [duplicate_tasks EXCEPT ![p] = <<>>]
    /\ similar_tasks' = [similar_tasks EXCEPT ![p] = <<>>]
    /\ embedding' = [embedding EXCEPT ![p] = NoVector]
    /\ task_record' = [task_record EXCEPT ![p] = <<>>]
    /\ stdout' = [stdout EXCEPT ![p] = <<>>]
    /\ UNCHANGED <<dbvars, clock, runs>>
    /\ UNCHANGED apivars

\* a close that commits what the connection had pending
close_Commits(p) ==
    /\ pc[p] = "close"
    /\ conn' = [conn EXCEPT ![p] = "closed"]
    /\ tasks' = tasks \o txn[p]
    /\ pc' = [pc EXCEPT ![p] = "idle"]
    /\ txn' = [txn EXCEPT ![p] = <<>>]
    /\ UNCHANGED <<tableExists, autoinc, clock, runs, prog, agentvars, similar_tasks,
                   embedding, task_record, stdout>>
    /\ UNCHANGED apivars

\* TaskDatabase.close, the last statement of agent.py main and of the try
\* block of test_database: conn.close(), then the program returns
close(p) ==
    /\ pc[p] = "close"
    /\ conn' = [conn EXCEPT ![p] = "closed"]
    /\ EndOfProcess(p)

\* test_database after an exception: return False without db.close()
Exit(p) ==
    /\ pc[p] = "exit"
    /\ conn' = [conn EXCEPT ![p] = "none"]
    /\ EndOfProcess(p)

Next ==
    \E p \in Procs :
        \/ create_database_tables(p)
        \/ AgentStart(p)
        \/ TestStart(p)
        \/ ExtractEmailTasks(p)
        \/ find_similar_tasks(p)
        \/ add_task_execute(p)
        \/ add_task_commit(p)
        \/ close(p)
        \/ Exit(p)

Spec == Init /\ [][Next]_vars

\* ====================================================== a single pipeline
\* Runs of agent.py one after another: a run starts when no other is under way.
SequentialStart(p) ==
    /\ \A q \in Procs : pc[q] = "idle"
    /\ AgentStart(p)

SeqNext ==
    \E p \in Procs :
        \/ SequentialStart(p)
        \/ ExtractEmailTasks(p)
        \/ find_similar_tasks(p)
        \/ add_task_execute(p)
        \/ add_task_commit(p)
        \/ close(p)

SeqSpec == Init /\ [][SeqNext]_vars

\* ============================================================== scheduling
\* a started agent.py runs on: each of its statements returns or raises
Run(p) ==
    \/ ExtractEmailTasks(p)
    \/ find_similar_tasks(p)
    \/ add_task_execute(p)
    \/ add_task_commit(p)
    \/ close(p)

\* runs of agent.py one after another, each running on to its end
FairSpec == SeqSpec /\ \A p \in Procs : WF_vars(Run(p))

\* ================================================= a client of TaskDatabase
\* TaskDatabase is the exported class of src/database: a client constructs
\* it and calls add_task, find_similar_tasks, get_recent_tasks and close in
\* any order with any arguments.  Each call runs to its return or its raise.

\* the task argument of add_task
ClientTasks == { Task("Submit quarterly report", 1), Task(" ", 2) }

\* the email_context argument of add_task
ClientContexts == { None, "", "Database setup test" }

\* the query argument of find_similar_tasks
ClientQueries == { "database test", "" }

\* the limit argument of find_similar_tasks and get_recent_tasks
ClientLimits == { 0, 1, 2 }

\* openai.embeddings.create refuses the empty string as input
ProviderAccepts(text) == text # ""

\* the exceptions openai.embeddings.create can raise for a text
ProviderErrors(text) ==
    IF ProviderAccepts(text) THEN {"ProviderError"} ELSE {"ProviderError", "BadRequestError"}

\* response.data[0].embedding: the vector of the model, or what a provider
\* that does not keep to the model's dimensions sends: a shorter vector, nothing
ProviderResponses(text) ==
    { EmbeddingTable[text],
      SubSeq(EmbeddingTable[text], 1, Len(EmbeddingTable[text]) - 1),
      NoVector }

\* a statement whose index takes vectors of any length
StatementError_AnyDimensions(p, e, needsVector) ==
    IF needsVector /\ e = NoVector THEN "TypeError"
    ELSE IF conn[p] = "closed" THEN "ProgrammingError"
    ELSE IF ~tableExists THEN "OperationalError"
    ELSE None

\* the exception a statement on p's connection raises before it reads or
\* writes, for a vector e bound to vector32(?): None if it raises nothing.
\* map(str, None) raises; conn.cursor() of a closed connection raises; the
\* statement needs the table; tasks_embedding_idx takes vectors of the
\* dimensions of the column only
StatementError(p, e, needsVector) ==
    IF needsVector /\ e = NoVector THEN "TypeError"
    ELSE IF conn[p] = "closed" THEN "ProgrammingError"
    ELSE IF ~tableExists THEN "OperationalError"
    ELSE IF needsVector /\ Len(e) # embedding_dimensions THEN "OperationalError"
    ELSE None

\* the SELECT of get_recent_tasks, ORDER BY created_at DESC LIMIT ?: every
\* list it can return; SQL leaves the order of equal created_at open
RecentTasks(rows, limit) ==
    LET late == [j \in 1..Len(rows) |-> 0 - rows[j].created_at]
    IN  { [a \in 1..Len(s) |->
              TaskRecord(rows[s[a]].id, rows[s[a]].name, rows[s[a]].priority,
                         rows[s[a]].due_date, rows[s[a]].created_at, NoVector,
                         rows[s[a]].email_context, NoDistance)] :
          s \in TopK(late, 1..Len(rows), limit) }

\* the call of p raises e
ClientRaise(p, e) == raised' = e

\* the call of p returns
ClientReturn(p) == raised' = None

\* a client is constructed on the lowest free connection
CanCall(p) == conn[p] \in {"open", "closed"} /\ calls < MaxCalls

\* db = TaskDatabase()
Client_init(p) ==
    /\ conn[p] = "none" /\ prog[p] = "none" /\ calls < MaxCalls
    /\ \A q \in Procs : q < p => conn[q] # "none"
    /\ conn' = [conn EXCEPT ![p] = "open"]
    /\ calls' = calls + 1
    /\ call' = Call(p, "TaskDatabase", None, None, None, None)
    /\ UNCHANGED <<dbvars, txn, clock, runs, pc, prog, agentvars, similar_tasks,
                   embedding, task_record, stdout, raised, recent_tasks, embedding_text>>

\* an add_task whose INSERT replaces the record of the same name
Client_add_task_Replaces(p) ==
    /\ CanCall(p) /\ conn[p] = "open" /\ tableExists
    /\ \E task \in ClientTasks, now \in Now :
          LET e == generate_embedding(task.name)
              row == Row(NextRowid, task, now, None, vector32(EmbeddingStr(e)))
          IN  /\ call' = Call(p, "add_task", task, None, None, None)
              /\ embedding_text' = task.name
              /\ embedding' = [embedding EXCEPT ![p] = e]
              /\ tasks' = SelectSeq(tasks, LAMBDA r : r.name # task.name) \o <<row>>
              /\ autoinc' = row.id
              /\ task_record' = [task_record EXCEPT ![p] =
                    << TaskRecord(row.id, task.name, task.priority, task.due_date,
                                  now, e, None, NoDistance) >>]
              /\ clock' = now
    /\ ClientReturn(p)
    /\ calls' = calls + 1
    /\ UNCHANGED <<tableExists, txn, runs, pc, prog, conn, agentvars, similar_tasks,
                   stdout, recent_tasks>>

\* db.add_task(task, email_context): embed, INSERT, commit, return the record
Client_add_task(p) ==
    /\ CanCall(p)
    /\ \E task \in ClientTasks, ctx \in ClientContexts :
          LET text == EmbeddingText(task.name, ctx) IN
          /\ call' = Call(p, "add_task", task, ctx, None, None)
          /\ embedding_text' = text
          /\ \/ /\ \E x \in ProviderErrors(text) : ClientRaise(p, x)
                /\ UNCHANGED <<tasks, autoinc, txn, clock, task_record, embedding>>
             \/ /\ ProviderAccepts(text)
                /\ \E e \in ProviderResponses(text) :
                      /\ embedding' = [embedding EXCEPT ![p] = e]
                      /\ IF StatementError(p, e, TRUE) # None
                         THEN /\ ClientRaise(p, StatementError(p, e, TRUE))
                              /\ UNCHANGED <<tasks, autoinc, txn, clock, task_record>>
                         ELSE \E now \in Now :
                             LET row == Row(NextRowid + Len(txn[p]), task, now, ctx,
                                            vector32(EmbeddingStr(e)))
                             IN  \/ /\ \A q \in Procs : q # p => txn[q] = <<>>
                                    /\ \E later \in now..MaxClock :
                                          /\ task_record' = [task_record EXCEPT ![p] =
                                                << TaskRecord(row.id, task.name, task.priority,
                                                              task.due_date, later, e, ctx,
                                                              NoDistance) >>]
                                          /\ clock' = later
                                    /\ tasks' = tasks \o txn[p] \o <<row>>
                                    /\ autoinc' = row.id
                                    /\ txn' = [txn EXCEPT ![p] = <<>>]
                                    /\ ClientReturn(p)
                                 \/ /\ \A q \in Procs : q # p => txn[q] = <<>>
                                    /\ txn' = [txn EXCEPT ![p] = Append(@, row)]
                                    /\ clock' = now
                                    /\ ClientRaise(p, "OperationalError")
                                    /\ UNCHANGED <<tasks, autoinc, task_record>>
                                 \/ /\ ClientRaise(p, "OperationalError")
                                    /\ UNCHANGED <<tasks, autoinc, txn, clock, task_record>>
    /\ calls' = calls + 1
    /\ UNCHANGED <<tableExists, runs, pc, prog, conn, agentvars, similar_tasks,
                   stdout, recent_tasks>>

\* db.find_similar_tasks(query, limit): embed the query, SELECT, build the list
Client_find_similar_tasks(p) ==
    /\ CanCall(p)
    /\ \E query \in ClientQueries, limit \in ClientLimits :
          /\ call' = Call(p, "find_similar_tasks", None, None, query, limit)
          /\ embedding_text' = query
          /\ \/ /\ \E x \in ProviderErrors(query) : ClientRaise(p, x)
                /\ UNCHANGED similar_tasks
             \/ /\ ProviderAccepts(query)
                /\ \E e \in ProviderResponses(query) :
                      IF StatementError(p, e, TRUE) # None
                      THEN /\ ClientRaise(p, StatementError(p, e, TRUE))
                           /\ UNCHANGED similar_tasks
                      ELSE \E sim \in QueryNearest(View(p), e, limit) :
                              /\ similar_tasks' = [similar_tasks EXCEPT ![p] = sim]
                              /\ ClientReturn(p)
    /\ calls' = calls + 1
    /\ UNCHANGED <<dbvars, txn, clock, runs, pc, prog, conn, agentvars, embedding,
                   task_record, stdout, recent_tasks>>

\* db.get_recent_tasks(limit): SELECT, build the list
Client_get_recent_tasks(p) ==
    /\ CanCall(p)
    /\ \E limit \in ClientLimits :
          /\ call' = Call(p, "get_recent_tasks", None, None, None, limit)
          /\ IF StatementError(p, NoVector, FALSE) # None
             THEN /\ ClientRaise(p, StatementError(p, NoVector, FALSE))
                  /\ UNCHANGED recent_tasks
             ELSE \E rec \in RecentTasks(View(p), limit) :
                     /\ recent_tasks' = rec
                     /\ ClientReturn(p)
    /\ calls' = calls + 1
    /\ UNCHANGED <<dbvars, txn, clock, runs, pc, prog, conn, agentvars, similar_tasks,
                   embedding, task_record, stdout, embedding_text>>

\* db.close(): conn.close(); what the connection had not committed is rolled back
Client_close(p) ==
    /\ CanCall(p)
    /\ conn' = [conn EXCEPT ![p] = "closed"]
    /\ txn' = [txn EXCEPT ![p] = <<>>]
    /\ call' = Call(p, "close", None, None, None, None)
    /\ ClientReturn(p)
    /\ calls' = calls + 1
    /\ UNCHANGED <<dbvars, clock, runs, pc, prog, agentvars, similar_tasks, embedding,
                   task_record, stdout, recent_tasks, embedding_text>>

ApiNext ==
    \E p \in Procs :
        \/ Client_init(p)
        \/ Client_add_task(p)
        \/ Client_find_similar_tasks(p)
        \/ Client_get_recent_tasks(p)
        \/ Client_close(p)

ApiSpec == Init /\ [][ApiNext]_vars

\* =================================================================== claims
\* the ids of the rows of a table
Ids(rows) == { rows[j].id : j \in 1..Len(rows) }

\* process p takes a step
Steps(p) == pc'[p] # pc[p] \/ idx'[p] # idx[p]

\* the candidate the agent process p is working on
Candidate(p) == result[p][idx[p]]

\* the stored vector the text of a query is compared with
QueryVector(text) == vector32(EmbeddingStr(generate_embedding(text)))

\* the distances of the stored records from a query vector
Distances(rows, qvec) ==
    { vector_distance_cos(rows[j].embedding, qvec) : j \in 1..Len(rows) }

\* the ingestion loop of p judges its candidate a duplicate in this step
RejectedStep(p) ==
    /\ prog[p] = "agent" /\ pc[p] = "find"
    /\ duplicate_tasks'[p] # duplicate_tasks[p]

\* the ingestion loop of p judges its candidate new in this step
AcceptedStep(p) ==
    /\ prog[p] = "agent" /\ pc[p] = "find"
    /\ pc'[p] = "add"

\* the nearest-neighbour query of p's candidate comes back in this step
JudgedStep(p) ==
    /\ prog[p] = "agent" /\ pc[p] = "find" /\ Steps(p)
    /\ stdout'[p] = stdout[p] \/ stdout'[p][Len(stdout'[p])][1] # "error"

\* add_task returns to p in this step
InsertReturned(p) == pc[p] = "commit" /\ txn[p] # <<>> /\ txn'[p] = <<>> /\ pc'[p] # "idle"

\* C1: a candidate whose nearest-neighbour query came back is accepted, and
\* goes on to be inserted, exactly if the store holds no record or every
\* stored record is at a distance of at least T = 0.1 (a distance equal to T
\* is accepted); it is rejected, and put on the duplicate list, exactly if
\* some stored record is at a distance below T.  An accepted candidate whose
\* insert returns is the row that was added.
C1_DedupRule ==
    [][\A p \in Procs :
          /\ JudgedStep(p) =>
                LET near == { d \in Distances(tasks, QueryVector(Candidate(p).name)) :
                                 d < DuplicateThreshold }
                IN  /\ AcceptedStep(p) <=> near = {}
                    /\ RejectedStep(p) <=> near # {}
                    /\ RejectedStep(p) =>
                          duplicate_tasks'[p] = Append(duplicate_tasks[p], Candidate(p))
          /\ (prog[p] = "agent" /\ InsertReturned(p)) =>
                /\ Len(tasks') = Len(tasks) + 1
                /\ tasks'[Len(tasks')].name = Candidate(p).name
                /\ new_tasks'[p] = Append(new_tasks[p], Candidate(p))]_vars

\* C1 witness: a candidate whose nearest record is at exactly T was accepted
C1_Witness ==
    \E p \in Procs :
        /\ prog[p] = "agent" /\ pc[p] = "add"
        /\ similar_tasks[p] # <<>>
        /\ similar_tasks[p][1].similarity_distance = DuplicateThreshold

\* the candidate p is working on has been put on the duplicate list
OnDuplicateList(p) ==
    /\ prog[p] = "agent"
    /\ pc[p] \in {"add", "commit"}
    /\ Len(new_tasks[p]) + Len(duplicate_tasks[p]) >= idx[p]

\* C2: rejecting a candidate leaves the store as it was: the step that puts
\* the candidate on the duplicate list, and any step the pipeline takes for a
\* candidate that is on the duplicate list, changes neither the record count
\* nor any field of any record, nor does it leave a pending write.
C2_RejectKeepsStore ==
    [][\A p \in Procs :
          (RejectedStep(p) \/ (OnDuplicateList(p) /\ Steps(p))) =>
              /\ tasks' = tasks
              /\ autoinc' = autoinc
              /\ tableExists' = tableExists
              /\ txn' = txn /\ txn[p] = <<>>]_vars

\* C2 witness: a candidate was rejected against a record of the store
C2_Witness ==
    \E p \in Procs :
        /\ prog[p] = "agent"
        /\ duplicate_tasks[p] # <<>>
        /\ similar_tasks[p] # <<>>
        /\ similar_tasks[p][1].similarity_distance < DuplicateThreshold
        /\ similar_tasks[p][1].id \in Ids(tasks)

\* C3: when add_task returns, exactly one record was added to the records
\* there were, and the id of the returned record is the id of that record
\* and differs from the id of every record that was in the store before.
C3_InsertAddsOneNewId ==
    [][\A p \in Procs :
          InsertReturned(p) =>
              /\ Len(tasks') = Len(tasks) + 1
              /\ SubSeq(tasks', 1, Len(tasks)) = tasks
              /\ task_record'[p] # <<>>
              /\ task_record'[p][1].id = tasks'[Len(tasks')].id
              /\ task_record'[p][1].id \notin Ids(tasks)]_vars

\* C3 witness: an accepted candidate was inserted into a store that held a record
C3_Witness ==
    \E p \in Procs :
        /\ prog[p] = "agent"
        /\ new_tasks[p] # <<>>
        /\ task_record[p] # <<>>
        /\ Len(tasks) >= 2
        /\ task_record[p][1].id = tasks[Len(tasks)].id

\* the stored records at distance 0 from the embedding of a returned record
AtDistanceZero(rows, r) ==
    { j \in 1..Len(rows) :
        /\ rows[j].embedding # NoVector
        /\ vector_distance_cos(rows[j].embedding, vector32(EmbeddingStr(r.embedding))) = 0 }

\* C4 as claimed: right after add_task has returned a record, every answer
\* to the nearest-neighbour query with the record's own embedding and k = 1
\* is that exact record at distance 0.
C4_Original ==
    [][\A p \in Procs :
          InsertReturned(p) =>
              \A res \in QueryNearest(tasks', task_record'[p][1].embedding, 1) :
                  /\ Len(res) = 1
                  /\ res[1].id = task_record'[p][1].id
                  /\ res[1].similarity_distance = 0]_vars

\* C4 amended: right after add_task has returned a record, the record is in
\* the similarity index: every answer to the query with its own embedding
\* and k = 1 is one record at distance 0, the returned record is among the
\* possible answers, it is the only answer when no other stored record is at
\* distance 0 from its embedding, and a query for as many records as the
\* store holds returns it.
C4_QueryableAfterInsert ==
    [][\A p \in Procs :
          InsertReturned(p) =>
              LET r == task_record'[p][1]
                  one == QueryNearest(tasks', r.embedding, 1)
                  all == QueryNearest(tasks', r.embedding, Len(tasks'))
              IN  /\ \A res \in one :
                        /\ Len(res) = 1
                        /\ res[1].similarity_distance = 0
                        /\ Cardinality(AtDistanceZero(tasks', r)) = 1 => res[1].id = r.id
                  /\ \E res \in one : res[1].id = r.id
                  /\ \A res \in all : \E a \in 1..Len(res) :
                        res[a].id = r.id /\ res[a].similarity_distance = 0]_vars

\* C4 witness: add_task has returned a record while another stored record
\* has the same embedding
C4_Witness ==
    \E p \in Procs :
        /\ task_record[p] # <<>>
        /\ task_record[p][1].id \in Ids(tasks)
        /\ Cardinality(AtDistanceZero(tasks, task_record[p][1])) >= 2

\* the insert of q has been executed and is not yet committed
InFlight(q) == pc[q] = "commit" /\ txn[q] # <<>>

\* find_similar_tasks returns a list to p in this step
QueryReturned(p) ==
    /\ pc[p] = "find" /\ Steps(p)
    /\ stdout'[p] = stdout[p] \/ stdout'[p][Len(stdout'[p])][1] # "error"

\* the rows of the table that do not belong to an insert in flight
CommittedRows ==
    SelectSeq(tasks, LAMBDA r : \A q \in Procs : InFlight(q) => r.id # txn[q][1].id)

\* C5: a find_similar_tasks that runs while the insert of another process
\* is in flight returns an answer to its query over the records before that
\* insert or over the records after it, each record with all the fields of
\* the committed or inserted row.
C5_QueryDuringInsert ==
    [][\A p, q \in Procs :
          (p # q /\ InFlight(q) /\ QueryReturned(p)) =>
              LET e == generate_embedding(QueryArg(p)) IN
              \/ similar_tasks'[p] \in QueryNearest(CommittedRows, e, LimitArg(p))
              \/ similar_tasks'[p] \in QueryNearest(CommittedRows \o txn[q], e, LimitArg(p))]_vars

\* C5 witness: a query is about to run while an insert is in flight whose
\* record is a near duplicate of the query, so that the answers before and
\* after the insert differ
C5_Witness ==
    \E p, q \in Procs :
        /\ p # q /\ InFlight(q)
        /\ prog[p] = "agent" /\ pc[p] = "find"
        /\ vector_distance_cos(txn[q][1].embedding, QueryVector(Candidate(p).name))
              < DuplicateThreshold
        /\ \A d \in Distances(tasks, QueryVector(Candidate(p).name)) : d >= DuplicateThreshold

\* the sum of the counts of the summary lines a process has printed
RECURSIVE ReportedCount(_)
ReportedCount(out) ==
    IF out = <<>> THEN 0
    ELSE (IF Head(out)[1] \in {"saved", "duplicates"} THEN Head(out)[2] ELSE 0)
            + ReportedCount(Tail(out))

\* the Embedding Provider fails in this step of the agent process p
ProviderFails(p) ==
    /\ prog[p] = "agent" /\ pc[p] \in {"find", "add"} /\ Steps(p)
    /\ stdout'[p] # stdout[p]
    /\ stdout'[p][Len(stdout'[p])] = <<"error", "ProviderError">>

\* the Embedding Provider fails in this step of the query of p
ProviderFailsInQuery(p) ==
    /\ pc[p] = "find" /\ Steps(p)
    /\ stdout'[p] # stdout[p]
    /\ stdout'[p][Len(stdout'[p])] = <<"error", "ProviderError">>

\* C6 as claimed: when the Embedding Provider fails on candidate i the run
\* goes straight to its end, the store and the lists of the candidates
\* before i stay as they are, and the output reports the number i - 1 of
\* candidates processed before the failure.
C6_ProviderFailure ==
    [][\A p \in Procs :
          ProviderFails(p) =>
              /\ pc'[p] = "close"
              /\ tasks' = tasks
              /\ new_tasks'[p] = new_tasks[p] /\ duplicate_tasks'[p] = duplicate_tasks[p]
              /\ Len(new_tasks[p]) + Len(duplicate_tasks[p]) = idx[p] - 1
              /\ ReportedCount(stdout'[p]) = idx[p] - 1]_vars

\* a row with every column of the INSERT set
Complete(r) ==
    /\ r.name # None /\ r.due_date # None
    /\ r.priority \in Int /\ r.created_at \in Int
    /\ r.embedding # NoVector

\* add_task raises in this step of p
InsertFails(p) ==
    /\ pc[p] \in {"add", "commit"} /\ Steps(p)
    /\ stdout'[p] # stdout[p]
    /\ stdout'[p][Len(stdout'[p])][1] = "error"

\* the table is dropped and created again in this step
StoreDropped == tableExists /\ runs' # runs /\ pc' = pc /\ tasks' = <<>>

Min(a, b) == IF a < b THEN a ELSE b

\* C8 as claimed: a nearest-neighbour query with k >= 1 on a store of n
\* records has one possible answer: min(k, n) records in ascending order of
\* distance, records at equal distance in ascending order of id.
C8_OrderedDeterministic ==
    \A text \in DOMAIN EmbeddingTable : \A k \in 1..DefaultLimit :
        LET answers == QueryNearest(tasks, generate_embedding(text), k)
        IN  /\ Cardinality(answers) = 1
            /\ \A res \in answers :
                  /\ Len(res) = Min(k, Len(tasks))
                  /\ \A a, b \in 1..Len(res) :
                        a < b =>
                          \/ res[a].similarity_distance < res[b].similarity_distance
                          \/ /\ res[a].similarity_distance = res[b].similarity_distance
                             /\ res[a].id < res[b].id

\* C9 as claimed: a find_similar_tasks whose query was embedded, run on a
\* store that holds no record, returns the empty list and raises nothing.
C9_EmptyStoreQuery ==
    [][\A p \in Procs :
          (pc[p] = "find" /\ Steps(p) /\ tasks = <<>> /\ ~ProviderFailsInQuery(p)) =>
              /\ similar_tasks'[p] = <<>>
              /\ QueryReturned(p)]_vars

\* C10: the ids of the records are strictly increasing in insertion order,
\* hence pairwise distinct, and none exceeds the rowid sequence; a step that
\* changes the table of an existing store keeps every record with its id
\* and adds a record whose id is larger than every id assigned before.
C10_IdsIncrease ==
    [][/\ \A a, b \in 1..Len(tasks') : a < b => tasks'[a].id < tasks'[b].id
       /\ \A a \in 1..Len(tasks') : tasks'[a].id <= autoinc'
       /\ (tasks' # tasks /\ ~StoreDropped) =>
            /\ Len(tasks') = Len(tasks) + 1
            /\ \A a \in 1..Len(tasks) : tasks'[a].id = tasks[a].id
            /\ tasks'[Len(tasks')].id > autoinc
            /\ autoinc' = tasks'[Len(tasks')].id]_vars

\* C10 witness: three inserts have been committed, by more than one pipeline
C10_Witness ==
    /\ Len(tasks) >= 3
    /\ \E a, b \in 1..Len(tasks) : a # b /\ tasks[a].name = tasks[b].name

\* s can be had from t by leaving elements out
RECURSIVE IsSubsequence(_, _)
IsSubsequence(s, t) ==
    IF s = <<>> THEN TRUE
    ELSE IF t = <<>> THEN FALSE
    ELSE IF Head(s) = Head(t) THEN IsSubsequence(Tail(s), Tail(t))
    ELSE IsSubsequence(s, Tail(t))

\* C11: the candidates of a batch are processed in the order supplied.  The
\* loop moves from candidate i to candidate i + 1 only, and only in the
\* step that settles candidate i; while candidate i is being queried or
\* inserted exactly the i - 1 candidates before it are settled; an accepted
\* candidate is appended to the accepted list in the step its insert
\* returns, with an id above every id the store has given so far, and a
\* rejected one is appended to the rejected list, so both lists keep the
\* order of the batch.
C11_BatchOrder ==
    [][\A p \in Procs :
          (prog[p] = "agent" /\ pc'[p] # "idle") =>
              /\ idx'[p] # idx[p] =>
                    /\ idx'[p] = idx[p] + 1
                    /\ pc[p] = "extract" \/ Len(new_tasks'[p]) + Len(duplicate_tasks'[p]) = idx[p]
              /\ pc'[p] \in {"find", "add", "commit"} =>
                    Len(new_tasks'[p]) + Len(duplicate_tasks'[p]) = idx'[p] - 1
              /\ new_tasks'[p] # new_tasks[p] =>
                    /\ InsertReturned(p)
                    /\ new_tasks'[p] = Append(new_tasks[p], result[p][idx[p]])
                    /\ tasks'[Len(tasks')].name = result[p][idx[p]].name
                    /\ tasks'[Len(tasks')].id > autoinc
                    /\ \A j \in 1..Len(tasks) : tasks'[Len(tasks')].id > tasks[j].id
              /\ duplicate_tasks'[p] # duplicate_tasks[p] =>
                    duplicate_tasks'[p] = Append(duplicate_tasks[p], result[p][idx[p]])
              /\ IsSubsequence(new_tasks'[p], SubSeq(result'[p], 1, idx'[p]))
              /\ IsSubsequence(duplicate_tasks'[p], SubSeq(result'[p], 1, idx'[p]))]_vars

\* C11 witness: a batch of two different candidates was processed to its
\* end and both were rejected
C11_Witness ==
    \E p \in Procs :
        /\ prog[p] = "agent" /\ pc[p] = "close"
        /\ Len(duplicate_tasks[p]) = 2
        /\ duplicate_tasks[p][1] # duplicate_tasks[p][2]

\* C20 as claimed: an insert takes one timestamp: the created_at of the
\* record add_task returns is the created_at of the row it persisted, which
\* is what a later query returns for the same id.
C20_SingleTimestamp ==
    [][\A p \in Procs :
          InsertReturned(p) =>
              \A j \in 1..Len(tasks') :
                  tasks'[j].id = task_record'[p][1].id =>
                      tasks'[j].created_at = task_record'[p][1].created_at]_vars

\* ----------------------------------------------- claims about the client
\* a client makes the call op in this step
Called(op) == calls' # calls /\ call'.op = op

\* the call op a client makes in this step returns
Returned(op) == Called(op) /\ raised' = None

\* the call a client makes in this step touches neither the records nor a
\* transaction
StoreUntouched == tasks' = tasks /\ autoinc' = autoinc /\ txn' = txn

\* C12 as claimed: get_recent_tasks(limit) on a store of n records returns
\* min(limit, n) records, the latest by created_at, in descending order of
\* created_at, records of equal created_at in descending order of id; after
\* the inserts A, B, C the call with limit 2 returns C, B.
C12_ListRecent ==
    [][Returned("get_recent_tasks") =>
          LET rows == View(call'.client)
              rec == recent_tasks'
          IN  /\ Len(rec) = Min(call'.limit, Len(rows))
              /\ \A a \in 1..Len(rec) : rec[a].id \in Ids(rows)
              /\ \A a, b \in 1..Len(rec) :
                    a < b =>
                      \/ rec[a].created_at > rec[b].created_at
                      \/ /\ rec[a].created_at = rec[b].created_at
                         /\ rec[a].id > rec[b].id
              /\ \A j \in 1..Len(rows) : \A a \in 1..Len(rec) :
                    rows[j].id \notin { rec[b].id : b \in 1..Len(rec) } =>
                      \/ rows[j].created_at < rec[a].created_at
                      \/ /\ rows[j].created_at = rec[a].created_at
                         /\ rows[j].id < rec[a].id]_vars

\* C13 as claimed: once close has been called on a store, every call of
\* add_task, find_similar_tasks or get_recent_tasks on it fails with the
\* error of a closed store, and neither reads nor changes the records.
C13_ClosedStore ==
    [][(/\ calls' # calls
        /\ call'.op \in {"add_task", "find_similar_tasks", "get_recent_tasks"}
        /\ conn[call'.client] = "closed") =>
          /\ raised' = "ProgrammingError"
          /\ StoreUntouched
          /\ similar_tasks' = similar_tasks /\ recent_tasks' = recent_tasks
          /\ task_record' = task_record]_vars

\* C14 as claimed: find_similar_tasks with a limit below 1 fails: it raises,
\* returns no list and leaves the store unchanged.
C14_InvalidLimit ==
    [][(Called("find_similar_tasks") /\ call'.limit < 1) =>
          /\ raised' # None
          /\ similar_tasks' = similar_tasks
          /\ StoreUntouched]_vars

\* a text that is empty after trimming
IsBlank(text) == text \in {"", " "}

\* C15 as claimed: a candidate whose text is empty after trimming is refused
\* before any change of the store: add_task raises and leaves the store
\* unchanged, and every persisted record has a name that is not blank.
C15_EmptyInput ==
    [][/\ (Called("add_task") /\ IsBlank(call'.task.name)) =>
              (raised' # None /\ StoreUntouched)
       /\ \A j \in 1..Len(tasks') : ~IsBlank(tasks'[j].name)]_vars

\* C16 as claimed: the text add_task sends to the Embedding Provider is the
\* task name when email_context is None and name, " Context: ",
\* email_context whenever an email_context is given; the persisted name is
\* the task name.
C16_Original ==
    [][Called("add_task") =>
          /\ embedding_text' =
                IF call'.email_context = None
                THEN call'.task.name
                ELSE call'.task.name \o " Context: " \o call'.email_context
          /\ Returned("add_task") => tasks'[Len(tasks')].name = call'.task.name]_vars

\* C16 amended: the text add_task sends to the Embedding Provider is the
\* task name when email_context is None or the empty string, and name,
\* " Context: ", email_context when email_context is a non-empty string; the
\* persisted and the returned name are the task name, and the email_context
\* is persisted as given.
C16_EmbeddingInput ==
    [][Called("add_task") =>
          /\ embedding_text' =
                IF call'.email_context \in {None, ""}
                THEN call'.task.name
                ELSE call'.task.name \o " Context: " \o call'.email_context
          /\ Returned("add_task") =>
                /\ tasks'[Len(tasks')].name = call'.task.name
                /\ tasks'[Len(tasks')].email_context = call'.email_context
                /\ task_record'[call'.client][1].name = call'.task.name]_vars

\* C16 witness: add_task has returned for a call with the empty string as
\* email_context, and the record is in the store
C16_Witness ==
    /\ call.op = "add_task" /\ raised = None
    /\ call.email_context = ""
    /\ embedding_text = call.task.name
    /\ tasks # <<>> /\ tasks[Len(tasks)].email_context = ""

\* a row whose embedding is set and has the dimensions of the column
HasEmbedding(r) == r.embedding # NoVector /\ Len(r.embedding) = embedding_dimensions

\* C17: every record, committed or pending, has an embedding of exactly the
\* configured dimensions; an add_task whose embedding is missing or has
\* another length raises and leaves the store unchanged.
C17_EmbeddingDimensions ==
    [][/\ \A j \in 1..Len(tasks') : HasEmbedding(tasks'[j])
       /\ \A p \in Procs : \A j \in 1..Len(txn'[p]) : HasEmbedding(txn'[p][j])
       /\ (/\ Called("add_task")
           /\ embedding'[call'.client] # embedding[call'.client] \/ raised' = None
           /\ \/ embedding'[call'.client] = NoVector
              \/ Len(embedding'[call'.client]) # embedding_dimensions) =>
             (raised' # None /\ StoreUntouched)]_vars

\* C17 witness: an add_task on an open store with records got an embedding
\* one component short, and raised
C17_Witness ==
    /\ call.op = "add_task"
    /\ raised = "OperationalError"
    /\ conn[call.client] = "open" /\ tasks # <<>>
    /\ Len(embedding[call.client]) = embedding_dimensions - 1

\* C18: records are never updated or deleted: a call of a client keeps every
\* record with every field and adds records at most, and the record
\* add_task returns has the id, name, priority, due date and embedding input
\* of the row it persisted.
C18_RecordsImmutable ==
    [][/\ Len(tasks') >= Len(tasks)
       /\ \A j \in 1..Len(tasks) : tasks'[j] = tasks[j]
       /\ Returned("add_task") =>
             LET r == task_record'[call'.client][1]
                 row == tasks'[Len(tasks')]
             IN  /\ Len(tasks') > Len(tasks)
                 /\ r.id = row.id /\ r.name = row.name /\ r.priority = row.priority
                 /\ r.due_date = row.due_date
                 /\ row.embedding = vector32(EmbeddingStr(r.embedding))]_vars

\* C18 witness: a query has returned on a store of two records of the same name
C18_Witness ==
    /\ call.op \in {"find_similar_tasks", "get_recent_tasks"}
    /\ raised = None
    /\ Len(tasks) >= 2
    /\ tasks[1].name = tasks[2].name

\* C19: similarity_distance is a cosine distance between 0 and 2 on every
\* record find_similar_tasks returns, and is None on the record add_task
\* returns and on every record get_recent_tasks returns.
C19_SimilarityDistance ==
    [][/\ Returned("find_similar_tasks") =>
             \A a \in 1..Len(similar_tasks'[call'.client]) :
                 /\ similar_tasks'[call'.client][a].similarity_distance # NoDistance
                 /\ similar_tasks'[call'.client][a].similarity_distance \in 0..200
       /\ Returned("add_task") =>
             task_record'[call'.client][1].similarity_distance = NoDistance
       /\ Returned("get_recent_tasks") =>
             \A a \in 1..Len(recent_tasks') :
                 recent_tasks'[a].similarity_distance = NoDistance]_vars

\* C19 witness: find_similar_tasks has returned two records, the nearer at
\* a distance above 0
C19_Witness ==
    /\ call.op = "find_similar_tasks" /\ raised = None
    /\ Len(similar_tasks[call.client]) = 2
    /\ similar_tasks[call.client][1].similarity_distance > 0

\* C21 as claimed: every record persisted through ingestion has a priority
\* of 1, 2 or 3: a candidate with another priority does not reach add_task.
C21_PriorityRange ==
    [][\A p \in Procs :
          /\ (prog[p] = "agent" /\ pc'[p] = "add") =>
                result'[p][idx'[p]].priority \in {1, 2, 3}
          /\ (prog[p] = "agent" /\ InsertReturned(p)) =>
                tasks'[Len(tasks')].priority \in {1, 2, 3}]_vars

\* C22 as claimed: encoding a vector to the persisted representation and
\* decoding it back gives the vector itself: the embedding column of the row
\* an insert persisted holds, component for component, the vector the
\* Embedding Provider returned for it.
C22_CodecRoundTrip ==
    [][\A p \in Procs :
          InsertReturned(p) =>
              /\ Len(tasks'[Len(tasks')].embedding) = Len(task_record'[p][1].embedding)
              /\ \A j \in 1..Len(task_record'[p][1].embedding) :
                    tasks'[Len(tasks')].embedding[j] = task_record'[p][1].embedding[j]]_vars

\* the records the ingestion loop inserted: add_task without email_context
FromIngestion(r) == r.email_context = None

\* C24 as claimed: with two pipelines running at once, of two candidates
\* within a distance below T of each other at most one is inserted: the
\* store never holds two ingested records within a distance below T.
C24_ConcurrentDedup ==
    \A a, b \in 1..Len(tasks) :
        (a < b /\ FromIngestion(tasks[a]) /\ FromIngestion(tasks[b])) =>
            vector_distance_cos(tasks[a].embedding, tasks[b].embedding) >= DuplicateThreshold

\* C26 as claimed: the pipeline gets one embedding per candidate, the vector
\* persisted for an accepted candidate is the vector of its duplicate query,
\* and the Embedding Provider cannot fail between the verdict and the insert.
C26_OneEmbedding ==
    [][\A p \in Procs :
          (prog[p] = "agent" /\ pc[p] = "add" /\ Steps(p)) =>
              /\ ~ProviderFails(p)
              /\ pc'[p] = "commit" =>
                    txn'[p][1].embedding = QueryVector(result[p][idx[p]].name)]_vars

\* the process has printed an error
HasError(out) == \E j \in 1..Len(out) : out[j][1] = "error"

\* C28: every candidate ends in exactly one of the two lists and stays
\* there: a step of the loop appends the current candidate to one of the
\* lists or leaves both as they are, and when a run reaches its end without
\* an error the sizes of the two lists add up to the size of the batch.
C28_Partition ==
    [][\A p \in Procs :
          (prog[p] = "agent" /\ pc'[p] # "idle") =>
              /\ \/ new_tasks'[p] = new_tasks[p] /\ duplicate_tasks'[p] = duplicate_tasks[p]
                 \/ /\ new_tasks'[p] = Append(new_tasks[p], result[p][idx[p]])
                    /\ duplicate_tasks'[p] = duplicate_tasks[p]
                 \/ /\ duplicate_tasks'[p] = Append(duplicate_tasks[p], result[p][idx[p]])
                    /\ new_tasks'[p] = new_tasks[p]
              /\ (pc'[p] = "close" /\ ~HasError(stdout'[p])) =>
                    /\ Len(new_tasks'[p]) + Len(duplicate_tasks'[p]) = Len(result'[p])
                    /\ idx'[p] = Len(result'[p])]_vars

\* C28 witness: a run has reached its end without an error with one
\* candidate of its batch accepted and the other rejected
C28_Witness ==
    \E p \in Procs :
        /\ prog[p] = "agent" /\ pc[p] = "close" /\ ~HasError(stdout[p])
        /\ Len(result[p]) = 2
        /\ new_tasks[p] # <<>> /\ duplicate_tasks[p] # <<>>

\* C29: the verdict of the loop, which queries with the default limit of 5
\* and looks at the first record of the list, is the verdict every answer
\* to the query for the single nearest record (limit 1) gives.
C29_FirstOfFive ==
    [][\A p \in Procs :
          JudgedStep(p) =>
              \A one \in QueryNearest(View(p), generate_embedding(QueryArg(p)), 1) :
                  /\ IsDuplicate(one) <=> IsDuplicate(similar_tasks'[p])
                  /\ IsDuplicate(one) <=> RejectedStep(p)
                  /\ ~IsDuplicate(one) <=> AcceptedStep(p)]_vars

\* C29 witness: the loop has judged a candidate on a list of two records at
\* different distances, the first of them a duplicate
C29_Witness ==
    \E p \in Procs :
        /\ prog[p] = "agent" /\ duplicate_tasks[p] # <<>>
        /\ Len(similar_tasks[p]) >= 2
        /\ similar_tasks[p][1].similarity_distance < DuplicateThreshold
        /\ similar_tasks[p][2].similarity_distance >= DuplicateThreshold

\* --------------------------------------- claims about a single pipeline
\* C23: with ingestion runs executed one after another by a single
\* pipeline, on a store that starts without records, the store never
\* holds two records within a distance below T of each other.
C23_NoNearDuplicates ==
    \A a, b \in 1..Len(tasks) :
        a # b =>
            vector_distance_cos(tasks[a].embedding, tasks[b].embedding) >= DuplicateThreshold

\* C23 witness: a second run has rejected a candidate against a store of
\* two records that the first run inserted
C23_Witness ==
    \E p \in Procs :
        /\ runs = 2 /\ Len(tasks) = 2
        /\ prog[p] = "agent" /\ new_tasks[p] = <<>> /\ duplicate_tasks[p] # <<>>

\* the candidate of p is within a distance below T of a candidate of the
\* same batch that was accepted
NearAccepted(p) ==
    \E a \in 1..Len(new_tasks[p]) :
        vector_distance_cos(QueryVector(new_tasks[p][a].name),
                            QueryVector(result[p][idx[p]].name)) < DuplicateThreshold

\* C25: deduplication applies within a batch: a candidate within a distance
\* below T of an accepted candidate of the same batch is rejected when its
\* nearest-neighbour query comes back, and the list that comes back holds
\* the record of the accepted candidate.
C25_WithinBatch ==
    [][\A p \in Procs :
          (JudgedStep(p) /\ NearAccepted(p)) =>
              /\ RejectedStep(p)
              /\ \E a \in 1..Len(similar_tasks'[p]) :
                    /\ similar_tasks'[p][a].similarity_distance < DuplicateThreshold
                    /\ \E b \in 1..Len(new_tasks[p]) :
                          similar_tasks'[p][a].name = new_tasks[p][b].name]_vars

\* C25 witness: the second candidate of a batch was rejected against the
\* record of the first, the only record of the store
C25_Witness ==
    \E p \in Procs :
        /\ prog[p] = "agent" /\ Len(tasks) = 1
        /\ Len(new_tasks[p]) = 1 /\ Len(duplicate_tasks[p]) = 1
        /\ duplicate_tasks[p][1].name = new_tasks[p][1].name
        /\ tasks[1].name = new_tasks[p][1].name

\* C27: at every point of an ingestion run, the point where a failure has
\* ended it included, every task on the accepted list has a committed record
\* with its name, priority and due date, and the store has at least as many
\* records as the list has tasks.
C27_AcceptedCommitted ==
    \A p \in Procs :
        prog[p] = "agent" =>
            /\ Len(new_tasks[p]) <= Len(tasks)
            /\ \A a \in 1..Len(new_tasks[p]) :
                  \E j \in 1..Len(tasks) :
                      /\ tasks[j].name = new_tasks[p][a].name
                      /\ tasks[j].priority = new_tasks[p][a].priority
                      /\ tasks[j].due_date = new_tasks[p][a].due_date

\* C27 witness: a run was ended by a failure of the commit of its second
\* insert, after its first candidate had been accepted
C27_Witness ==
    \E p \in Procs :
        /\ prog[p] = "agent" /\ pc[p] = "close" /\ HasError(stdout[p])
        /\ txn[p] # <<>>
        /\ Len(new_tasks[p]) = 1

\* ------------------------------------------------ claims about scheduling
\* C30: every run of agent.py main that has opened the store closes it in
\* the end, whether extraction and ingestion succeed or raise; the store is
\* open at every query and insert of the run, it is closed in one step, the
\* last of the run, and the run takes no step after it.
C30_ClosesOnce ==
    /\ [][\A p \in Procs :
             prog[p] = "agent" =>
                 /\ conn[p] = "open"
                 /\ conn'[p] # conn[p] =>
                       (pc[p] = "close" /\ conn'[p] = "closed" /\ pc'[p] = "idle")
                 /\ pc'[p] = "idle" => conn'[p] = "closed"]_vars
    /\ \A p \in Procs : (prog[p] = "agent") ~> (prog[p] = "none" /\ conn[p] = "closed")

\* C30 witness: an AuthorizationError has ended the extraction of a run and
\* the run is at its db.close()
C30_Witness ==
    \E p \in Procs :
        /\ prog[p] = "agent" /\ pc[p] = "close" /\ conn[p] = "open"
        /\ stdout[p] # <<>>
        /\ stdout[p][Len(stdout[p])] = <<"error", "AuthorizationError">>

====
